---- MODULE Spec2Model ----
(***************************************************************************)
(* Shared interactive session multiplexing (srv/sess.go): the session      *)
(* registry, sessions, parties and the fan-out multiWriter, as a state     *)
(* machine.  Callers are goroutines that run newShell, joinShell,          *)
(* leaveShell and party.Close, or joinSubsys.execute; every started        *)
(* session has an output pump (io.Copy into the multiWriter) and an        *)
(* exit-wait pump.                                                         *)
(***************************************************************************)
EXTENDS Integers, FiniteSets, Sequences, TLC

\* ------------------------------------------------------------- bounds
NConn == 2        \* calling goroutines (one connection context each)
NSid == 2         \* distinct session ids callers may supply
MaxSess == 2      \* session objects that may ever be started
MaxParty == 2     \* party objects that may ever be attached
MaxWrites == 1    \* broadcaster Write calls of the output pumps, all sessions together

Conns == 1..NConn
SIDs == 1..NSid
Objs == 1..MaxSess
Parties == 1..MaxParty
Capture == 0                      \* the sink id "capture" (sess.go:159)
Sinks == {Capture} \cup Parties   \* party sinks are keyed by the party id
NoLock == 0

VARIABLES
  sessions,   \* sessionRegistry.sessions: session id -> session object, 0 = absent
  lock,       \* sessionRegistry's Mutex: 0 = free, else the goroutine holding it
  nsess,      \* session objects started so far
  sess,       \* the session objects
  nparty,     \* party ids handed out so far (uuid.New is fresh each time)
  party,      \* the party objects
  recv,       \* recv[p][o]: calls of p.ctx.sendResult with session o's result
  wr,         \* the in-flight multiWriter.Write call of each session's output pump
  pc,         \* where each calling goroutine is
  fr,         \* its locals
  ret,        \* what the call returning in the step just taken returned, else "none"
  joinOk,     \* joinShell calls that returned nil, per session id
  nwrites,    \* Write calls begun so far
  ex          \* per connection: its joinSubsys.execute call and its context's closers

vars == <<sessions, lock, nsess, sess, nparty, party, recv, wr, pc, fr, ret, joinOk, nwrites, ex>>

\* Granularity.  newShell takes no lock, so its two accesses to shared state are
\* separate steps: start (which works on a session object no other goroutine can
\* reach yet, and launches its pumps) and the insert of line 33.  The bodies of
\* joinShell and leaveShell run under the registry lock; each is cut where it reads
\* the table (Lock and findSession) and where it may wait for the multiWriter's
\* lock, so that an unlocked insert and a Write in flight interleave with them.
\* The session and party of a start that failed are unreachable and not kept.

\* ------------------------------------------------- session (pure part)
\* id, parties, writers (s.writer.writers), t: the fields of session;
\* closes: calls of s.t.Close; pumpA: the output pump (run, stop);
\* pumpB: the exit-wait pump (wait: command running, res: result collected and
\* not yet broadcast, done); pumpC: parties whose input pump was launched;
\* events: the audit events the exit-wait pump has emitted
newSession(id) ==
  [id |-> id, parties |-> {}, writers |-> {}, t |-> "nil", closes |-> 0,
   pumpA |-> "none", pumpB |-> "none", pumpC |-> {}, events |-> <<>>]

NoSession == newSession(0)

\* s, ctx: the fields of party; late: history, the joinShell call that attached
\* the party began after the session's command had completed
newParty(o, c, late) == [s |-> o, ctx |-> c, late |-> late]

NoParty == newParty(0, 0, FALSE)

addWriter(s, id) == [s EXCEPT !.writers = @ \cup {id}]

deleteWriter(s, id) == [s EXCEPT !.writers = @ \ {id}]

addParty(s, p) ==
  LET s1 == [s EXCEPT !.parties = @ \cup {p}]
      s2 == addWriter(s1, p)
  IN  [s2 EXCEPT !.pumpC = @ \cup {p}]

join(s, p) == addParty(s, p)

start_noCapture(s, p) ==
  LET s1 == [s EXCEPT !.t = "term"]
      s3 == addParty(s1, p)
  IN  [s3 EXCEPT !.pumpA = "run", !.pumpB = "wait"]

\* session.start after s.t.run succeeded: lines 151-183
start(s, p) ==
  LET s1 == [s EXCEPT !.t = "term"]
      s2 == addWriter(s1, Capture)
      s3 == addParty(s2, p)
  IN  [s3 EXCEPT !.pumpA = "run", !.pumpB = "wait"]

leave_keepsWriter(s, id) == [s EXCEPT !.parties = @ \ {id}]

leave(s, id) == deleteWriter([s EXCEPT !.parties = @ \ {id}], id)

sessClose(s) == IF s.t # "nil" THEN [s EXCEPT !.closes = @ + 1] ELSE s

findSession(id) == sessions[id]

broadcastTargets_everAttached(s) ==
  {p \in Parties : party[p].s # 0 /\ sess[party[p].s].id = s.id}

\* the parties session.broadcastResult calls sendResult on
broadcastTargets(s) == s.parties

leave_found_always(s, id) == TRUE

\* session.leave line 197: the party id is in the parties map
leave_found(s, id) == id \in s.parties

\* ---------------------------------------------------------------- Init
NoRet == [op |-> "none", v |-> "none", sid |-> 0, pid |-> 0]
NoFrame == [sid |-> 0, pid |-> 0, o |-> 0, locked |-> FALSE, late |-> FALSE]
NoWrite == [st |-> "idle", cnt |-> [w \in Sinks |-> 0], res |-> "none", last |-> "none"]

\* st: where the connection's execute call is (none, joinShell, addCloser, wait,
\* nil, err); closer: the closer of line 246 (none, reg: registered, run: it has
\* closed the finished channel); closed: the context has been closed;
\* run: the party closers that close took and has still to call
NoExec == [st |-> "none", closer |-> "none", closed |-> FALSE, run |-> {}]

Init ==
  /\ sessions = [i \in SIDs |-> 0]
  /\ lock = NoLock
  /\ nsess = 0
  /\ sess = [o \in Objs |-> NoSession]
  /\ nparty = 0
  /\ party = [p \in Parties |-> NoParty]
  /\ recv = [p \in Parties |-> [o \in Objs |-> 0]]
  /\ wr = [o \in Objs |-> NoWrite]
  /\ pc = [c \in Conns |-> "idle"]
  /\ fr = [c \in Conns |-> NoFrame]
  /\ ret = NoRet
  /\ joinOk = [i \in SIDs |-> 0]
  /\ nwrites = 0
  /\ ex = [c \in Conns |-> NoExec]

Unlock(c) == IF fr[c].locked THEN NoLock ELSE lock

\* the call of goroutine c returns v
Return(c, op, v, id, pid) ==
  /\ pc' = [pc EXCEPT ![c] = "idle"]
  /\ fr' = [fr EXCEPT ![c] = NoFrame]
  /\ ret' = [op |-> op, v |-> v, sid |-> id, pid |-> pid]


\* ------------------------------------------------------------ registry
joinShell_found_never(id) == FALSE

\* joinShell line 44: the session was found in the table
joinShell_found(id) == findSession(id) # 0

lastPartyLeft_always(s) == TRUE

\* leaveShell line 65: the party count is now zero
lastPartyLeft(s) == s.parties = {}

leaveShell_delete_skipped(id) == sessions

\* leaveShell line 69: delete(s.sessions, sess.id)
leaveShell_delete(id) == [sessions EXCEPT ![id] = 0]

mwLockFree_always(o) == TRUE

\* multiWriter.Lock (lines 265, 271) succeeds only while no Write holds the RLock
mwLockFree(o) == wr[o].st = "idle"

newShell_err_registers(c, id, locked) ==
  /\ Return(c, IF locked THEN "joinShell" ELSE "newShell", "start_err", id, 0)
  /\ nsess' = nsess + 1
  /\ sess' = [sess EXCEPT ![nsess + 1] = newSession(id)]
  /\ sessions' = [sessions EXCEPT ![id] = nsess + 1]
  /\ UNCHANGED <<lock, nparty, party, recv, wr, joinOk, nwrites>>

\* newShell lines 30-32: start failed, the error is returned, nothing is inserted
newShell_err(c, id, locked) ==
  /\ Return(c, IF locked THEN "joinShell" ELSE "newShell", "start_err", id, 0)
  /\ UNCHANGED <<sessions, lock, nsess, sess, nparty, party, recv, wr, joinOk, nwrites>>

\* newShell lines 29-30 with a start that succeeds: the session object exists,
\* holds its first party and its pumps run, and is not yet in the table
newShell_started(c, id, locked) ==
  LET o == nsess + 1
      p == nparty + 1
  IN  /\ nsess' = o
      /\ nparty' = p
      /\ sess' = [sess EXCEPT ![o] = start(newSession(id), p)]
      /\ party' = [party EXCEPT ![p] = newParty(o, c, FALSE)]
      /\ lock' = IF locked THEN c ELSE lock
      /\ pc' = [pc EXCEPT ![c] = "ns_insert"]
      /\ fr' = [fr EXCEPT ![c] = [sid |-> id, pid |-> p, o |-> o, locked |-> locked,
                                      late |-> FALSE]]
      /\ ret' = NoRet
      /\ UNCHANGED <<sessions, recv, wr, joinOk, nwrites>>

\* session.start lines 129-150: adopt the context's terminal (hasTerm) or
\* allocate one (newTerm may fail), then run the command (run may fail)
newShell_start(c, id, locked) ==
  \E hasTerm \in BOOLEAN, out \in {"ok", "newTerm_err", "run_err"} :
    /\ out = "newTerm_err" => ~hasTerm
    /\ IF out = "ok" THEN newShell_started(c, id, locked) ELSE newShell_err(c, id, locked)

\* newShell called directly: the registry lock is not taken
newShell(c, id) ==
  /\ pc[c] = "idle"
  /\ nsess < MaxSess /\ nparty < MaxParty
  /\ newShell_start(c, id, FALSE)

\* newShell line 33: s.sessions[sess.id] = sess, then return nil
\* (through joinShell, its deferred Unlock runs)
newShell_insert(c) ==
  /\ pc[c] = "ns_insert"
  /\ sessions' = [sessions EXCEPT ![sess[fr[c].o].id] = fr[c].o]
  /\ lock' = Unlock(c)
  /\ joinOk' = IF fr[c].locked THEN [joinOk EXCEPT ![fr[c].sid] = @ + 1] ELSE joinOk
  /\ Return(c, IF fr[c].locked THEN "joinShell" ELSE "newShell", "nil", fr[c].sid, fr[c].pid)
  /\ UNCHANGED <<nsess, sess, nparty, party, recv, wr, nwrites>>

\* joinShell lines 40-47: Lock, findSession; not found: newShell under the lock;
\* found: go on to sess.join with a fresh party id
joinShell(c, id) ==
  /\ pc[c] = "idle"
  /\ lock = NoLock
  /\ nparty < MaxParty
  /\ IF joinShell_found(id)
     THEN /\ lock' = c
          /\ nparty' = nparty + 1
          /\ pc' = [pc EXCEPT ![c] = "js_join"]
          /\ fr' = [fr EXCEPT ![c] = [sid |-> id, pid |-> nparty + 1, o |-> findSession(id),
                                      locked |-> TRUE,
                                      late |-> sess[findSession(id)].pumpB # "wait"]]
          /\ ret' = NoRet
          /\ UNCHANGED <<sessions, nsess, sess, party, recv, wr, joinOk, nwrites>>
     ELSE /\ nsess < MaxSess
          /\ newShell_start(c, id, TRUE)

\* joinShell lines 49-50: sess.join (addParty takes the multiWriter's Lock), Unlock
joinShell_join(c) ==
  LET o == fr[c].o
      p == fr[c].pid
  IN  /\ pc[c] = "js_join"
      /\ mwLockFree(o)
      /\ sess' = [sess EXCEPT ![o] = join(@, p)]
      /\ party' = [party EXCEPT ![p] = newParty(o, c, fr[c].late)]
      /\ lock' = NoLock
      /\ joinOk' = [joinOk EXCEPT ![fr[c].sid] = @ + 1]
      /\ Return(c, "joinShell", "nil", fr[c].sid, p)
      /\ UNCHANGED <<sessions, nsess, nparty, recv, wr, nwrites>>

\* leaveShell lines 54-60: Lock, findSession; not found: error
leaveShell(c, id, pid) ==
  /\ pc[c] = "idle"
  /\ lock = NoLock
  /\ IF findSession(id) = 0
     THEN /\ Return(c, "leaveShell", "nosess", id, pid)
          /\ UNCHANGED <<sessions, lock, nsess, sess, nparty, party, recv, wr, joinOk, nwrites>>
     ELSE /\ lock' = c
          /\ pc' = [pc EXCEPT ![c] = "ls_leave"]
          /\ fr' = [fr EXCEPT ![c] = [sid |-> id, pid |-> pid, o |-> findSession(id),
                                      locked |-> TRUE, late |-> FALSE]]
          /\ ret' = NoRet
          /\ UNCHANGED <<sessions, nsess, sess, nparty, party, recv, wr, joinOk, nwrites>>

leaveShell_close_keptOnError(c, o, s1) ==
  \E cerr \in BOOLEAN :
    /\ sessions' = IF cerr THEN sessions ELSE leaveShell_delete(s1.id)
    /\ sess' = [sess EXCEPT ![o] = sessClose(s1)]
    /\ Return(c, "leaveShell", IF cerr THEN "close_err" ELSE "nil", fr[c].sid, fr[c].pid)

\* leaveShell lines 68-74: the last party left: delete the session from the table,
\* then Close it; a Close error is returned
leaveShell_close(c, o, s1) ==
  \E cerr \in BOOLEAN :
    /\ sessions' = leaveShell_delete(s1.id)
    /\ sess' = [sess EXCEPT ![o] = sessClose(s1)]
    /\ Return(c, "leaveShell", IF cerr THEN "close_err" ELSE "nil", fr[c].sid, fr[c].pid)

\* leaveShell lines 61-74: sess.leave; party unknown: error; parties remain: nil;
\* last party: delete from the table and Close (which may fail)
leaveShell_leave(c) ==
  LET o == fr[c].o
      pid == fr[c].pid
      s1 == leave(sess[o], pid)
  IN  /\ pc[c] = "ls_leave"
      /\ lock' = NoLock
      /\ IF ~leave_found(sess[o], pid)
         THEN /\ Return(c, "leaveShell", "noparty", fr[c].sid, pid)
              /\ UNCHANGED <<sessions, sess>>
         ELSE /\ mwLockFree(o)
              /\ IF ~lastPartyLeft(s1)
                 THEN /\ sess' = [sess EXCEPT ![o] = s1]
                      /\ Return(c, "leaveShell", "nil", fr[c].sid, pid)
                      /\ UNCHANGED sessions
                 ELSE leaveShell_close(c, o, s1)
      /\ UNCHANGED <<nsess, nparty, party, recv, wr, joinOk, nwrites>>

\* party.Close lines 319-322
Close(c, p) ==
  /\ party[p].s # 0
  /\ leaveShell(c, sess[party[p].s].id, p)

\* --------------------------------------------------------------- pumps
\* collectStatus (called at line 170, defined outside this file): what it makes
\* of cmd.Wait is either a result with the exit code or an error, never both
collectStatus ==
  {[result |-> TRUE, err |-> FALSE], [result |-> FALSE, err |-> TRUE]}

exitEvents_resultOnly(st) == IF st.result THEN <<"code">> ELSE <<>>

\* exit-wait goroutine lines 171-177: the audit events emitted for a status:
\* "err" is the event with exit code -1 and the error (line 173), "code" the
\* event with result.code and no error (line 177)
exitEvents(st) ==
  (IF st.err THEN <<"err">> ELSE <<>>) \o (IF st.result THEN <<"code">> ELSE <<>>)

\* exit-wait goroutine lines 169-177: cmd.Wait returns, the events are emitted;
\* with a result the goroutine goes on to broadcastResult
procExit(o) ==
  /\ sess[o].pumpB = "wait"
  /\ \E st \in collectStatus :
       sess' = [sess EXCEPT ![o].pumpB = IF st.result THEN "res" ELSE "done",
                            ![o].events = @ \o exitEvents(st)]
  /\ ret' = NoRet
  /\ UNCHANGED <<sessions, lock, nsess, nparty, party, recv, wr, pc, fr, joinOk, nwrites>>

broadcastResult_session_own(o) == o

\* registry broadcastResult lines 81-84: the session is the one the table holds
\* under the id, 0 when there is none ("session not found")
broadcastResult_session(o) == findSession(sess[o].id)

\* exit-wait goroutine line 178 and sessionRegistry.broadcastResult lines 77-87
broadcastResult(o) ==
  LET f == broadcastResult_session(o)
  IN  /\ sess[o].pumpB = "res"
      /\ lock = NoLock
      /\ recv' = IF f = 0 THEN recv
                 ELSE [p \in Parties |->
                         IF p \in broadcastTargets(sess[f])
                         THEN [recv[p] EXCEPT ![o] = @ + 1] ELSE recv[p]]
      /\ sess' = [sess EXCEPT ![o].pumpB = "done"]
      /\ ret' = [op |-> "broadcastResult", v |-> IF f = 0 THEN "nosess" ELSE "nil",
                 sid |-> sess[o].id, pid |-> 0]
      /\ UNCHANGED <<sessions, lock, nsess, nparty, party, wr, pc, fr, joinOk, nwrites>>

\* output pump lines 163-167 and multiWriter.Write lines 277-278: RLock
Write_begin(o) ==
  /\ sess[o].pumpA = "run"
  /\ sess[o].closes = 0
  /\ nwrites < MaxWrites
  /\ wr[o].st = "idle"
  /\ wr' = [wr EXCEPT ![o].st = "loop"]
  /\ nwrites' = nwrites + 1
  /\ ret' = NoRet
  /\ UNCHANGED <<sessions, lock, nsess, sess, nparty, party, recv, pc, fr, joinOk>>

Write_abort_shortOnly(out) == out = "short"

\* multiWriter.Write lines 282-288: the loop is left when the sink returned an
\* error or wrote fewer bytes than len(p)
Write_abort(out) == out # "ok"

\* multiWriter.Write lines 281-287: the error of the aborted call: the sink's own
\* err ("err"), or io.ErrShortWrite ("short") when the sink returned no error
Write_result(out) == IF out = "err" THEN "err" ELSE "short"

sinkWrite_ready_registryFree(w) == lock = NoLock

\* party.Write lines 311-313 and the capture buffer of line 159: a sink's Write
\* hands the bytes to the channel or the buffer and takes no lock of the registry
sinkWrite_ready(w) == TRUE

\* multiWriter.Write lines 280-290: the next sink of the range over t.writers;
\* last is what that sink's Write returned
Write_sink(o, w) ==
  /\ wr[o].st = "loop"
  /\ sinkWrite_ready(w)
  /\ w \in sess[o].writers
  /\ wr[o].cnt[w] = 0
  /\ \E out \in {"ok", "err", "short"} :
       /\ w = Capture => out = "ok"
       /\ LET cnt1 == [wr[o].cnt EXCEPT ![w] = @ + 1]
              rest == {x \in sess[o].writers : cnt1[x] = 0}
          IN  wr' = [wr EXCEPT ![o] =
                       IF Write_abort(out)
                       THEN [st |-> "ret", cnt |-> cnt1, res |-> Write_result(out), last |-> out]
                       ELSE IF rest = {}
                       THEN [st |-> "ret", cnt |-> cnt1, res |-> "ok", last |-> out]
                       ELSE [st |-> "loop", cnt |-> cnt1, res |-> "none", last |-> out]]
  /\ ret' = NoRet
  /\ UNCHANGED <<sessions, lock, nsess, sess, nparty, party, recv, pc, fr, joinOk, nwrites>>

\* Write returns (RUnlock); io.Copy ends on a Write error
Write_return(o) ==
  /\ wr[o].st = "ret"
  /\ wr' = [wr EXCEPT ![o] = NoWrite]
  /\ sess' = [sess EXCEPT ![o].pumpA = IF wr[o].res = "ok" THEN "run" ELSE "stop"]
  /\ ret' = NoRet
  /\ UNCHANGED <<sessions, lock, nsess, nparty, party, recv, pc, fr, joinOk, nwrites>>

\* ---------------------------------------------------------------- Next
\* The operations above leave ex alone: each specification says so per step.
Next ==
  \/ \E c \in Conns, id \in SIDs : newShell(c, id) /\ UNCHANGED ex
  \/ \E c \in Conns : newShell_insert(c) /\ UNCHANGED ex
  \/ \E c \in Conns, id \in SIDs : joinShell(c, id) /\ UNCHANGED ex
  \/ \E c \in Conns : joinShell_join(c) /\ UNCHANGED ex
  \/ \E c \in Conns, id \in SIDs, pid \in Parties : leaveShell(c, id, pid) /\ UNCHANGED ex
  \/ \E c \in Conns : leaveShell_leave(c) /\ UNCHANGED ex
  \/ \E c \in Conns, p \in Parties : Close(c, p) /\ UNCHANGED ex
  \/ \E o \in Objs : procExit(o) /\ UNCHANGED ex
  \/ \E o \in Objs : broadcastResult(o) /\ UNCHANGED ex
  \/ \E o \in Objs : Write_begin(o) /\ UNCHANGED ex
  \/ \E o \in Objs, w \in Sinks : Write_sink(o, w) /\ UNCHANGED ex
  \/ \E o \in Objs : Write_return(o) /\ UNCHANGED ex

Spec == Init /\ [][Next]_vars

\* The scheduler runs every goroutine that can take a step: a call that holds the
\* registry lock goes on to its return, and a Write goes on through its sinks
\* (each sink's Write returns) to its return.
Fairness ==
  /\ \A c \in Conns :
       /\ WF_vars(newShell_insert(c) /\ UNCHANGED ex)
       /\ WF_vars(joinShell_join(c) /\ UNCHANGED ex)
       /\ WF_vars(leaveShell_leave(c) /\ UNCHANGED ex)
  /\ \A o \in Objs :
       /\ WF_vars((\E w \in Sinks : Write_sink(o, w)) /\ UNCHANGED ex)
       /\ WF_vars(Write_return(o) /\ UNCHANGED ex)

\* the operations that take the registry lock or the broadcaster lock: sessions
\* come from joinShell only
NextLocks ==
  \/ \E c \in Conns, id \in SIDs : joinShell(c, id) /\ UNCHANGED ex
  \/ \E c \in Conns : newShell_insert(c) /\ UNCHANGED ex
  \/ \E c \in Conns : joinShell_join(c) /\ UNCHANGED ex
  \/ \E c \in Conns, id \in SIDs, pid \in Parties : leaveShell(c, id, pid) /\ UNCHANGED ex
  \/ \E c \in Conns : leaveShell_leave(c) /\ UNCHANGED ex
  \/ \E c \in Conns, p \in Parties : Close(c, p) /\ UNCHANGED ex
  \/ \E o \in Objs : procExit(o) /\ UNCHANGED ex
  \/ \E o \in Objs : broadcastResult(o) /\ UNCHANGED ex
  \/ \E o \in Objs : Write_begin(o) /\ UNCHANGED ex
  \/ \E o \in Objs, w \in Sinks : Write_sink(o, w) /\ UNCHANGED ex
  \/ \E o \in Objs : Write_return(o) /\ UNCHANGED ex

FairSpec == Init /\ [][NextLocks]_vars /\ Fairness


\* only joinShell is called (with the sessions' pumps running)
NextJoin ==
  \/ \E c \in Conns, id \in SIDs : joinShell(c, id) /\ UNCHANGED ex
  \/ \E c \in Conns : newShell_insert(c) /\ UNCHANGED ex
  \/ \E c \in Conns : joinShell_join(c) /\ UNCHANGED ex
  \/ \E o \in Objs : procExit(o) /\ UNCHANGED ex
  \/ \E o \in Objs : broadcastResult(o) /\ UNCHANGED ex
  \/ \E o \in Objs : Write_begin(o) /\ UNCHANGED ex
  \/ \E o \in Objs, w \in Sinks : Write_sink(o, w) /\ UNCHANGED ex
  \/ \E o \in Objs : Write_return(o) /\ UNCHANGED ex

SpecJoin == Init /\ [][NextJoin]_vars

\* ------------------------------------------------------------- helpers
Started(o) == o \in 1..nsess

\* the session objects started under session id
ObjsOf(id) == {o \in Objs : Started(o) /\ sess[o].id = id}

\* the party objects attached, now or earlier, to sessions with this id
PartiesOf(id) == {p \in Parties : party[p].s # 0 /\ sess[party[p].s].id = id}

Attached(p) == party[p].s # 0 /\ p \in sess[party[p].s].parties

\* the newShell call that created o has returned
Returned(o) == Started(o) /\ \A c \in Conns : ~(pc[c] = "ns_insert" /\ fr[c].o = o)

Registered(o) == Started(o) /\ sessions[sess[o].id] = o

\* ------------------------------------------------- joinSubsys.execute
\* ctx.addCloser and ctx.Close are defined outside this file: a closer is
\* registered on the context, and closing the context calls the closers
\* registered on it at that moment
ctx_addCloser(x) == [x EXCEPT !.closer = "reg"]

ctx_Close(x, parties) ==
  [x EXCEPT !.closed = TRUE,
            !.closer = IF @ = "reg" THEN "run" ELSE @,
            !.run = parties]

\* execute lines 241-244: where the call is once the joinShell step is taken:
\* still inside joinShell, or joinShell returned nil, or its error is returned
execute_joined(c) ==
  IF pc'[c] # "idle" THEN "joinShell"
  ELSE IF ret'.v = "nil" THEN "addCloser" ELSE "err"

\* execute line 241: the call of joinShell, up to its first step
execute(c, id) ==
  /\ ex[c].st = "none"
  /\ joinShell(c, id)
  /\ ex' = [ex EXCEPT ![c].st = execute_joined(c)]

\* execute line 241: joinShell goes on to its return
execute_joinShell(c) ==
  /\ ex[c].st = "joinShell"
  /\ joinShell_join(c) \/ newShell_insert(c)
  /\ ex' = [ex EXCEPT ![c].st = execute_joined(c)]

\* execute lines 245-250: make(chan bool), ctx.addCloser(close(finished))
execute_addCloser(c) ==
  /\ ex[c].st = "addCloser"
  /\ ex' = [ex EXCEPT ![c] = [ctx_addCloser(@) EXCEPT !.st = "wait"]]
  /\ ret' = NoRet
  /\ UNCHANGED <<sessions, lock, nsess, sess, nparty, party, recv, wr, pc, fr, joinOk, nwrites>>

\* execute lines 251-252: <-finished, return nil
execute_finished(c) ==
  /\ ex[c].st = "wait"
  /\ ex[c].closer = "run"
  /\ ex' = [ex EXCEPT ![c].st = "nil"]
  /\ ret' = [op |-> "execute", v |-> "nil", sid |-> 0, pid |-> 0]
  /\ UNCHANGED <<sessions, lock, nsess, sess, nparty, party, recv, wr, pc, fr, joinOk, nwrites>>

\* the connection's context is closed (once, at any moment): the closers
\* registered on it are taken: the finished closer of line 246 closes the
\* channel, the party closers of addParty line 210 are called next
ctxClose(c) ==
  /\ ~ex[c].closed
  /\ ex' = [ex EXCEPT ![c] = ctx_Close(@, {p \in Parties : party[p].ctx = c /\ Attached(p)})]
  /\ ret' = NoRet
  /\ UNCHANGED <<sessions, lock, nsess, sess, nparty, party, recv, wr, pc, fr, joinOk, nwrites>>

\* a party closer taken by the close is called: party.Close lines 319-322
ctx_partyClose(c, p) ==
  /\ p \in ex[c].run
  /\ Close(c, p)
  /\ ex' = [ex EXCEPT ![c].run = @ \ {p}]

\* connections that join through the join subsystem, and their contexts closing
NextExec ==
  \/ \E c \in Conns, id \in SIDs : execute(c, id)
  \/ \E c \in Conns : execute_joinShell(c)
  \/ \E c \in Conns : execute_addCloser(c)
  \/ \E c \in Conns : execute_finished(c)
  \/ \E c \in Conns : ctxClose(c)
  \/ \E c \in Conns, p \in Parties : ctx_partyClose(c, p)
  \/ \E c \in Conns : leaveShell_leave(c) /\ UNCHANGED ex
  \/ \E o \in Objs : procExit(o) /\ UNCHANGED ex
  \/ \E o \in Objs : broadcastResult(o) /\ UNCHANGED ex
  \/ \E o \in Objs : Write_begin(o) /\ UNCHANGED ex
  \/ \E o \in Objs, w \in Sinks : Write_sink(o, w) /\ UNCHANGED ex
  \/ \E o \in Objs : Write_return(o) /\ UNCHANGED ex

SpecExec == Init /\ [][NextExec]_vars

\* -------------------------------------------------------------- claims
\* C1: while only newShell and joinShell calls have been made with a session id
\* (no party of that id has left), at most one terminal has been created for it:
\* every call after the first attaches to the existing session.
C1_OneTerminalPerId ==
  \A id \in SIDs :
    (\A p \in PartiesOf(id) : Attached(p)) =>
      Cardinality({o \in ObjsOf(id) : sess[o].t # "nil"}) <= 1

\* C2: joinShell calls alone, for a session id not yet in the registry, create
\* exactly one session, register it, and leave one party in its parties map and
\* one party sink in its broadcaster for every call that returned nil.
C2_ConcurrentJoin ==
  \A id \in SIDs :
    /\ Cardinality(ObjsOf(id)) <= 1
    /\ lock = NoLock =>
         /\ joinOk[id] > 0 => sessions[id] \in ObjsOf(id)
         /\ joinOk[id] = 0 => sessions[id] = 0
         /\ sessions[id] # 0 =>
              /\ Cardinality(sess[sessions[id]].parties) = joinOk[id]
              /\ sess[sessions[id]].parties = PartiesOf(id)
              /\ sess[sessions[id]].writers = PartiesOf(id) \cup {Capture}

C2_Witness ==
  \E id \in SIDs :
    /\ lock = NoLock
    /\ joinOk[id] = 2
    /\ sessions[id] # 0
    /\ Cardinality(sess[sessions[id]].parties) = 2


\* C3: a session whose creating call has returned stays registered, with close
\* not invoked, while any of its parties has not left; when all of them have left
\* it is absent from the registry and close has been invoked exactly once.
C3_LastPartyCloses ==
  \A o \in Objs :
    Returned(o) =>
      IF sess[o].parties # {}
      THEN Registered(o) /\ sess[o].closes = 0
      ELSE ~Registered(o) /\ sess[o].closes = 1

\* C4 as claimed: a party that joined after the command completed never gets the
\* session's result, and no party gets it more than once.
C4_OnlyPartiesAtExit ==
  \A p \in Parties :
    /\ party[p].s # 0 /\ party[p].late => recv[p][party[p].s] = 0
    /\ \A o \in Objs : recv[p][o] <= 1

\* C4 as amended: session o's result is delivered only in the one step in which
\* registry.broadcastResult runs for o, to exactly the parties then in the
\* parties map of the session registered under o's id, once each; after that
\* step nobody gets it, so a party joining after the broadcast never does.
C4_DeliveredAtBroadcast ==
  [][\A o \in Objs :
       LET f == sessions[sess[o].id]
           bcast == sess[o].pumpB = "res" /\ sess'[o].pumpB = "done"
       IN  /\ sess[o].pumpB = "done" => sess'[o].pumpB = "done"
           /\ \A p \in Parties :
                /\ recv'[p][o] # recv[p][o] =>
                     bcast /\ f # 0 /\ p \in sess[f].parties /\ recv[p][o] = 0
                /\ bcast /\ f # 0 /\ p \in sess[f].parties => recv'[p][o] = 1
    ]_vars

\* P1 got the result; P2 joined the same session after the broadcast and got none
C4_Witness ==
  \E p1, p2 \in Parties :
    LET o == party[p1].s
    IN  /\ o # 0 /\ party[p2].s = o /\ p1 # p2
        /\ sess[o].pumpB = "done"
        /\ recv[p1][o] = 1
        /\ party[p2].late /\ Attached(p2) /\ recv[p2][o] = 0

\* C5: a Write that returns the full length and no error has written the slice
\* exactly once to every party sink and to the capture sink of its session;
\* within one call no sink is written twice and no unregistered sink is written.
C5_FanOut ==
  \A o \in Objs :
    /\ \A w \in Sinks : wr[o].cnt[w] <= 1 /\ (wr[o].cnt[w] = 1 => w \in sess[o].writers)
    /\ wr[o].st = "ret" /\ wr[o].res = "ok" =>
         \A w \in Sinks :
           wr[o].cnt[w] = IF w \in sess[o].parties \cup {Capture} THEN 1 ELSE 0

C5_Witness ==
  \E o \in Objs :
    /\ wr[o].st = "ret" /\ wr[o].res = "ok"
    /\ Cardinality(sess[o].parties) = 2
    /\ \A w \in sess[o].parties \cup {Capture} : wr[o].cnt[w] = 1

\* C6: whenever the registry lock is not held, every session in the registry
\* table has at least one party.
C6_RegisteredNonEmpty ==
  lock = NoLock =>
    \A id \in SIDs : sessions[id] # 0 => sess[sessions[id]].parties # {}

\* a party has left a session that is still registered
C6_Witness ==
  /\ lock = NoLock
  /\ \E p \in Parties :
       /\ party[p].s # 0 /\ ~Attached(p)
       /\ Registered(party[p].s)

C8_UnknownPartyNoChange ==
  [][\A c \in Conns :
       pc[c] = "ls_leave" /\ pc'[c] = "idle" /\ fr[c].pid \notin sess[fr[c].o].parties =>
         /\ ret'.op = "leaveShell" /\ ret'.v = "noparty"
         /\ sess' = sess
         /\ sessions' = sessions
    ]_vars

C8_Witness ==
  /\ ret.op = "leaveShell" /\ ret.v = "noparty"
  /\ \E id \in SIDs : sessions[id] # 0

\* C9: the first Close of an attached party removes it, so a party.Close that
\* returns a not-found error is a further Close: the party is in no parties map
\* and in no broadcaster.
C9_CloseErrorMeansGone ==
  \A p \in Parties :
    /\ ret.op = "leaveShell" /\ ret.v \in {"nosess", "noparty"}
    /\ ret.pid = p /\ party[p].s # 0 /\ ret.sid = sess[party[p].s].id
    => /\ p \notin sess[party[p].s].parties
       /\ p \notin sess[party[p].s].writers

\* C10: a call that returns the error of a failed start has inserted no session,
\* registered no party or sink and launched no pump: the registry table and all
\* sessions are as before the call.
C10_StartErrorNoChange ==
  [][ret'.v = "start_err" =>
       /\ ret'.op \in {"newShell", "joinShell"}
       /\ sessions' = sessions
       /\ sess' = sess
       /\ party' = party
       /\ nsess' = nsess /\ nparty' = nparty
       /\ lock' = lock
    ]_vars

C10_Witness ==
  /\ ret.v = "start_err"
  /\ \E id \in SIDs : sessions[id] # 0


\* C11: the leaveShell step whose Close fails returns the close error with the
\* session gone from the registry table; a session on which Close was invoked is
\* never in the table again and Close is never invoked on it a second time.
C11_CloseErrorStillRemoves ==
  /\ [][ret'.v = "close_err" =>
          \E c \in Conns :
            LET o == fr[c].o
            IN  /\ pc[c] = "ls_leave" /\ pc'[c] = "idle"
                /\ ret'.op = "leaveShell"
                /\ sess[o].closes = 0 /\ sess'[o].closes = 1
                /\ \A id \in SIDs : sessions'[id] # o
       ]_vars
  /\ [][\A o \in Objs :
          sess[o].closes >= 1 =>
            /\ sess'[o].closes = sess[o].closes
            /\ \A id \in SIDs : sessions'[id] # o
       ]_vars

C11_Witness ==
  /\ ret.op = "leaveShell" /\ ret.v = "close_err"
  /\ \E o \in Objs : Started(o) /\ sess[o].closes = 1 /\ ~Registered(o) /\ sess[o].id = ret.sid


\* C12: leaveShell and registry broadcastResult called with an id the table does
\* not hold return the not-found error and change nothing: the table, every
\* session's parties, sinks, terminal and close count and every party's received
\* results stay as they were; with an id the table holds they do not return it.
C12_NotFoundNoChange ==
  /\ [][ret'.v = "nosess" =>
          /\ ret'.op \in {"leaveShell", "broadcastResult"}
          /\ sessions[ret'.sid] = 0
          /\ sessions' = sessions /\ recv' = recv /\ party' = party /\ lock' = lock
          /\ \A o \in Objs :
               /\ sess'[o].parties = sess[o].parties
               /\ sess'[o].writers = sess[o].writers
               /\ sess'[o].t = sess[o].t
               /\ sess'[o].closes = sess[o].closes
       ]_vars
  /\ [][ret'.op = "broadcastResult" /\ sessions[ret'.sid] = 0 => ret'.v = "nosess"]_vars
  /\ [][\A c \in Conns :
          pc[c] = "idle" /\ pc'[c] = "ls_leave" => sessions[fr'[c].sid] # 0
       ]_vars

\* both operations have returned not-found while another session has a party
C12_Witness ==
  /\ ret.v = "nosess" /\ ret.op = "broadcastResult"
  /\ \E o \in Objs : Registered(o) /\ sess[o].parties # {} /\ sess[o].id # ret.sid

C12_WitnessLeave ==
  /\ ret.v = "nosess" /\ ret.op = "leaveShell"
  /\ \E o \in Objs : Registered(o) /\ sess[o].parties # {} /\ sess[o].id # ret.sid


\* C13 as stated: a Write stopped by a failing sink always reports the
\* short-write error.
C13_ShortWriteReported ==
  \A o \in Objs :
    wr[o].last \in {"err", "short"} => wr[o].st = "ret" /\ wr[o].res = "short"

\* C13: Write fails fast. The call stops at the first sink that returns an error
\* or a short count and reports that sink's own error, or the short-write error
\* when the sink returned none; it writes to no sink after that, the sinks
\* visited before keep what they were given, and no sink is written twice.
C13_FailFast ==
  /\ [](\A o \in Objs :
          /\ wr[o].last \in {"err", "short"} => wr[o].st = "ret" /\ wr[o].res = wr[o].last
          /\ wr[o].res \in {"err", "short"} => wr[o].last = wr[o].res
          /\ \A w \in Sinks : wr[o].cnt[w] <= 1)
  /\ [][\A o \in Objs :
          /\ wr[o].st = "ret" => wr'[o] = wr[o] \/ wr'[o] = NoWrite
          /\ wr[o].st = "loop" /\ wr'[o] # wr[o] =>
               \E w \in sess[o].writers :
                 /\ wr[o].cnt[w] = 0
                 /\ wr'[o].cnt = [wr[o].cnt EXCEPT ![w] = 1]
       ]_vars

\* a Write stopped by a sink's error after one sink took the data and before
\* another sink was visited
C13_Witness ==
  \E o \in Objs :
    /\ wr[o].st = "ret" /\ wr[o].res = "err"
    /\ \E w \in sess[o].writers : wr[o].cnt[w] = 1 /\ wr[o].last = "err"
    /\ wr[o].cnt[Capture] = 1
    /\ \E w \in sess[o].writers : wr[o].cnt[w] = 0


\* C14: the registry lock and the broadcaster lock never deadlock. A call that
\* holds the registry lock, waiting for the broadcaster lock or not, releases it,
\* so every waiter for it gets it; a Write in progress ends, so every waiter for
\* the broadcaster lock gets it; and no step of a Write reads or takes the
\* registry lock or touches the registry table.
C14_NoDeadlock ==
  /\ \A c \in Conns : (lock = c) ~> (lock = NoLock)
  /\ \A c \in Conns : (pc[c] \in {"js_join", "ls_leave"} /\ ~mwLockFree(fr[c].o)) ~> (pc[c] = "idle")
  /\ \A o \in Objs : (wr[o].st # "idle") ~> (wr[o].st = "idle")
  /\ [][\A o \in Objs :
          wr[o].st # "idle" /\ wr'[o] # wr[o] => lock' = lock /\ sessions' = sessions
       ]_vars

\* a leaveShell holds the registry lock and waits for the broadcaster lock,
\* which a Write in progress holds
C14_Witness ==
  \E c \in Conns :
    /\ lock = c /\ pc[c] = "ls_leave"
    /\ wr[fr[c].o].st = "loop"


\* C15: every write of the registry's session table is made by an operation that
\* holds the registry lock: a step that changes the table is a step of the
\* connection holding the lock.
C15_TableUnderLock ==
  [][sessions' # sessions =>
       \E c \in Conns : lock = c /\ pc[c] # "idle" /\ pc'[c] = "idle"
    ]_vars


\* C16: leaveShell performs no I/O while it holds the registry lock: it never
\* waits, lock in hand, for a broadcaster Write in progress, and the terminal of
\* a session is closed only by a step taken with the registry lock free.
C16_NoIOUnderLock ==
  /\ [](\A c \in Conns : lock = c /\ pc[c] = "ls_leave" => mwLockFree(fr[c].o))
  /\ [][\A o \in Objs : sess'[o].closes # sess[o].closes => lock = NoLock]_vars


\* the party was attached to a session and has been removed from it
Left(p) == party[p].s # 0 /\ ~Attached(p)

\* C17: once leaveShell(sid, pid) has returned nil, pid is in no session's
\* parties map and in no broadcaster's sink set and stays so: no Write in
\* progress has written to its channel and none does later, and no later result
\* broadcast increases the results it received.
C17_DepartedNotTargeted ==
  /\ [](\A p \in Parties :
          Left(p) =>
            \A o \in Objs :
              /\ p \notin sess[o].parties
              /\ p \notin sess[o].writers
              /\ wr[o].cnt[p] = 0)
  /\ [][/\ ret'.op = "leaveShell" /\ ret'.v = "nil" =>
             \E p \in Parties : p = ret'.pid /\ Left(p)'
        /\ \A p \in Parties : Left(p) => Left(p)' /\ recv'[p] = recv[p]
       ]_vars

\* after a party left, its session's broadcaster completed a Write and its
\* result was delivered to another party
C17_Witness ==
  \E p \in Parties :
    /\ Left(p)
    /\ LET o == party[p].s
       IN  /\ wr[o].st = "ret" /\ wr[o].res = "ok" /\ wr[o].cnt[Capture] = 1
           /\ \E q \in Parties \ {p} : recv[q][o] = 1


C19_ReturnsOnceClosersRan ==
  \A c \in Conns :
    ex[c].closed /\ ex[c].st = "wait" => ex[c].closer = "run"

\* C19, the rest: execute returns nil only after its closer was called, and
\* returns the error of a failed joinShell in the step joinShell returns it
C19_BlocksUntilCloser ==
  /\ [](\A c \in Conns : ex[c].st = "nil" => ex[c].closer = "run")
  /\ [][\A c \in Conns :
          ex'[c].st = "err" /\ ex[c].st # "err" =>
            ret'.op = "joinShell" /\ ret'.v # "nil" /\ ex[c].st \in {"none", "joinShell"}
       ]_vars


\* C20: for every registered session, whenever the registry lock is not held,
\* the broadcaster's sinks are the parties of the parties map plus the capture
\* sink; a session with a party or with its output pump started has the capture
\* sink, and no step takes the capture sink away.
C20_SinksMirrorParties ==
  /\ [](\A o \in Objs :
          /\ Registered(o) /\ lock = NoLock =>
               sess[o].writers = sess[o].parties \cup {Capture}
          /\ sess[o].parties # {} \/ sess[o].pumpA # "none" =>
               Capture \in sess[o].writers)
  /\ [][\A o \in Objs :
          Capture \in sess[o].writers => Capture \in sess'[o].writers
       ]_vars

\* a registered session, lock free, after one party left and with another
\* party that joined still attached
C20_Witness ==
  \E o \in Objs :
    /\ Registered(o) /\ lock = NoLock
    /\ \E p \in Parties : Left(p) /\ party[p].s = o
    /\ \E q \in Parties : Attached(q) /\ party[q].s = o
    /\ sess[o].writers = sess[o].parties \cup {Capture}

====
